---- MODULE Spec2Model ----
(***************************************************************************)
(* paralife.py: Conway's Game of Life on a torus, the rows of the grid     *)
(* dealt out to MPI processes by rank.  Every process holds a private copy *)
(* of the grid and of an augmented (wrap-padded) grid; per generation it   *)
(* updates the rows it owns, the rows are broadcast one by one from their  *)
(* owners, and rank 0 rebuilds and broadcasts the augmented grid.          *)
(*                                                                         *)
(* Indices are 0-based as in the source: a grid is a function              *)
(* [0..N-1 -> [0..N-1 -> {0,1}]], an augmented grid a function             *)
(* [0..N+1 -> [0..N+1 -> {0,1}]].                                          *)
(***************************************************************************)
EXTENDS Integers, Sequences, FiniteSets, TLC

\* Grid size of the main specification.  The source fixes N = 50 (line 138);
\* the model runs the same code on a small torus.
GridN == 3
\* Largest number of MPI processes (comm.Get_size()) tried.
MaxW == 3
\* Largest number of live cells in the random grid rank 0 draws (main specification).
MaxLive == 3
\* Generations followed in animated mode (the animation itself never ends).
MaxGen == 2
\* Generations of the headless loop; the source sets num_steps = 100.
num_steps == 2
\* SpecSizes: grid sizes 1 .. MaxSizeN, seeds with at most MaxSizeLive live cells.
MaxSizeN == 4
MaxSizeLive == 1
\* SpecPatterns: grid sizes 5 .. MaxPatN, 1 .. MaxPatW processes.
MaxPatN == 5
MaxPatW == 2

VARIABLES
    N,          \* the module-level grid size
    mpi_size,   \* comm.Get_size()
    do_movie,   \* run mode: TRUE animated, FALSE headless
    seed,       \* the grid np.random.choice gives rank 0 in Life.__init__
    pc,         \* pc[p]: where process p stands in the script
    row,        \* row[p]: loop variable of the row loop p is in
    gen,        \* gen[p]: generations p has completed
    grid,       \* grid[p]: game.grid of process p (<<>> before Life(N))
    aug_grid,   \* aug_grid[p]: game.aug_grid of process p
    chan,       \* chan[p]: broadcast payloads sent to p and not yet received
    snap,       \* history: grid[p] as it was when p began its current generation
    computed    \* history: computed[p][k] is grid[p] at the end of the compute loop of p's k-th generation

config == <<N, mpi_size, do_movie, seed>>
vars == <<N, mpi_size, do_movie, seed, pc, row, gen, grid, aug_grid, chan, snap, computed>>

Workers == 0 .. (mpi_size - 1)
Idx == 0 .. (N - 1)

----------------------------------------------------------------------------
\* Pure functions of class Life

\* a.shape[0] of a square array
size(a) == Cardinality(DOMAIN a)

\* np.lib.pad(a, ((1,1),(1,1)), 'wrap'): axis 0 is padded first (the last row
\* is put in front, the first row behind), then axis 1 of the result likewise.
pad_axis0_edge(a) ==
    LET n == size(a) IN
    [i \in 0 .. (n + 1) |-> IF i = 0 THEN a[0] ELSE IF i = n + 1 THEN a[n - 1] ELSE a[i - 1]]

pad_axis0(a) ==
    LET n == size(a) IN
    [i \in 0 .. (n + 1) |-> IF i = 0 THEN a[n - 1] ELSE IF i = n + 1 THEN a[0] ELSE a[i - 1]]

pad_axis1_edge(m) ==
    [i \in DOMAIN m |->
        LET n == size(m[i]) IN
        [j \in 0 .. (n + 1) |-> IF j = 0 THEN m[i][0] ELSE IF j = n + 1 THEN m[i][n - 1] ELSE m[i][j - 1]]]

pad_axis1(m) ==
    [i \in DOMAIN m |->
        LET n == size(m[i]) IN
        [j \in 0 .. (n + 1) |-> IF j = 0 THEN m[i][n - 1] ELSE IF j = n + 1 THEN m[i][0] ELSE m[i][j - 1]]]

form_aug_grid(a) == pad_axis1(pad_axis0(a))

\* Life.neighbor_sum, reading the augmented grid `aug`
neighbor_sum_typo(aug, r, c) ==
    aug[r + 2][c + 2] + aug[r + 2][c + 1] + aug[r + 2][c] +
    aug[r + 1][c + 2] + aug[r + 1][c + 1] +
    aug[r][c + 2] + aug[r][c + 1] + aug[r][c]

neighbor_sum(aug, r, c) ==
    aug[r + 2][c + 2] + aug[r + 2][c + 1] + aug[r + 2][c] +
    aug[r + 1][c + 2] + aug[r + 1][c] +
    aug[r][c + 2] + aug[r][c + 1] + aug[r][c]

\* The if/elif of the update loops: the value of grid[row][col] afterwards
cell_rule_two_alive(cur, n) == IF n = 3 THEN 1 ELSE IF n # 2 THEN 0 ELSE 1

cell_rule(cur, n) == IF n = 3 THEN 1 ELSE IF n # 2 THEN 0 ELSE cur

\* The inner column loop over one row: every cell is written from its own
\* current value and the neighbour sum read from aug, which the writes to
\* the grid do not touch (np.lib.pad returned a new array)
RECURSIVE inplace_cols(_, _, _)
inplace_cols(g, r, c) ==
    IF c < 0 THEN g
    ELSE LET h == inplace_cols(g, r, c - 1) IN
         [h EXCEPT ![r][c] = cell_rule(h[r][c], neighbor_sum(form_aug_grid(h), r, c))]

update_row_in_place(g, aug, r) == inplace_cols(g, r, size(g) - 1)

update_row(g, aug, r) ==
    [g EXCEPT ![r] = [c \in Idx |-> cell_rule(g[r][c], neighbor_sum(aug, r, c))]]

\* row % mpi_size == rank, the ownership test of the compute loop
is_mine_shifted(p, r) == (r + 1) % mpi_size = p

is_mine(p, r) == r % mpi_size = p

\* root=row % mpi_size of the row broadcast
bcast_root_shifted(r) == (r + 1) % mpi_size

bcast_root_zero(r) == 0

bcast_root(r) == r % mpi_size

\* What comm.bcast returns on process p: the root gets its own object back,
\* every other process the object the root sent
bcast_result_own(p, root, own, msg) == own

bcast_result(p, root, own, msg) == IF p = root THEN own ELSE msg

\* chan after process p has called comm.bcast with the given root
bcast_chan(p, root, own) ==
    IF p = root
    THEN [q \in Workers |-> IF q = p THEN chan[q] ELSE Append(chan[q], own)]
    ELSE [chan EXCEPT ![p] = Tail(@)]

\* comm.bcast blocks on a non-root process until the root's payload is there
bcast_ready_all_wait(p, root) == chan[p] # <<>>

bcast_ready(p, root) == p = root \/ chan[p] # <<>>

\* What process p hands to the broadcast of the augmented grid: rank 0
\* rebuilds it from its grid, the others pass the one they hold
reconcile_aug_stale(p, g, old) == old

reconcile_aug(p, g, old) == IF p = 0 THEN form_aug_grid(g) ELSE old

\* The startup test: rows_per_proc = N / mpi_size is Python 2 integer
\* division, int(N*1.0 / mpi_size) truncates the float quotient
rows_per_proc == N \div mpi_size
int_float_div == N \div mpi_size
not_divisible == rows_per_proc # int_float_div

----------------------------------------------------------------------------
\* Random grids of np.random.choice(2, (N,N))

Cells(n) == (0 .. (n - 1)) \X (0 .. (n - 1))

GridOf(n, live) == [r \in 0 .. (n - 1) |-> [c \in 0 .. (n - 1) |-> IF <<r, c>> \in live THEN 1 ELSE 0]]

\* The n x n grids with at most k live cells
SeedsOf(n, k) ==
    {GridOf(n, {})} \cup {GridOf(n, {f[i] : i \in 1 .. k}) : f \in [1 .. k -> Cells(n)]}

\* The grids drawn by the other ranks are overwritten at startup
OtherSeeds == {[r \in Idx |-> [c \in Idx |-> b]] : b \in {0, 1}}

----------------------------------------------------------------------------

Start ==
    /\ pc = [p \in Workers |-> "startup"]
    /\ row = [p \in Workers |-> 0]
    /\ gen = [p \in Workers |-> 0]
    /\ grid = [p \in Workers |-> <<>>]
    /\ aug_grid = [p \in Workers |-> <<>>]
    /\ chan = [p \in Workers |-> <<>>]
    /\ snap = [p \in Workers |-> <<>>]
    /\ computed = [p \in Workers |-> <<>>]

Init ==
    /\ N = GridN
    /\ mpi_size \in 1 .. MaxW
    /\ do_movie \in BOOLEAN
    /\ seed \in SeedsOf(N, MaxLive)
    /\ Start

InitSizes ==
    /\ N \in 1 .. MaxSizeN
    /\ mpi_size \in 1 .. MaxW
    /\ do_movie \in BOOLEAN
    /\ seed \in SeedsOf(N, MaxSizeLive)
    /\ Start

\* Lines 138-152: the divisibility test; only rank 0 calls exit()
StartupCheck(p) ==
    /\ pc[p] = "startup"
    /\ pc' = [pc EXCEPT ![p] = IF not_divisible /\ p = 0 THEN "exited" ELSE "construct"]
    /\ UNCHANGED <<config, row, gen, grid, aug_grid, chan, snap, computed>>

\* Line 156: game = Life(N)
Construct(p) ==
    /\ pc[p] = "construct"
    /\ \E g \in (IF p = 0 THEN {seed} ELSE OtherSeeds) :
        /\ grid' = [grid EXCEPT ![p] = g]
        /\ aug_grid' = [aug_grid EXCEPT ![p] = form_aug_grid(g)]
    /\ pc' = [pc EXCEPT ![p] = "seed_bcast"]
    /\ UNCHANGED <<config, row, gen, chan, snap, computed>>

\* Lines 159-161: the grid of rank 0 is broadcast, the augmented grid rebuilt
StartupBcast(p) ==
    /\ pc[p] = "seed_bcast"
    /\ bcast_ready(p, 0)
    /\ LET g == bcast_result(p, 0, grid[p], Head(chan[p])) IN
        /\ grid' = [grid EXCEPT ![p] = g]
        /\ aug_grid' = [aug_grid EXCEPT ![p] = form_aug_grid(g)]
    /\ chan' = bcast_chan(p, 0, grid[p])
    /\ pc' = [pc EXCEPT ![p] = "idle"]
    /\ UNCHANGED <<config, row, gen, snap, computed>>

\* Lines 169-178: the animation timer or the headless loop starts the next
\* generation, or the headless loop ends
Tick(p) ==
    /\ pc[p] = "idle"
    /\ do_movie => gen[p] < MaxGen
    /\ IF ~do_movie /\ gen[p] >= num_steps
       THEN /\ pc' = [pc EXCEPT ![p] = "done"]
            /\ UNCHANGED <<row, snap>>
       ELSE /\ pc' = [pc EXCEPT ![p] = IF do_movie /\ mpi_size = 1 THEN "update" ELSE "compute"]
            /\ row' = [row EXCEPT ![p] = 0]
            /\ snap' = [snap EXCEPT ![p] = grid[p]]
    /\ UNCHANGED <<config, gen, grid, aug_grid, chan, computed>>

\* Lines 44-48: one row of the np.ndindex loop of Life.update
UpdateRow(p) ==
    /\ pc[p] = "update"
    /\ row[p] < N
    /\ grid' = [grid EXCEPT ![p] = update_row(grid[p], aug_grid[p], row[p])]
    /\ row' = [row EXCEPT ![p] = @ + 1]
    /\ UNCHANGED <<config, pc, gen, aug_grid, chan, snap, computed>>

\* Line 49: Life.update rebuilds the augmented grid
UpdateAug_no_rebuild(p) ==
    /\ pc[p] = "update"
    /\ row[p] = N
    /\ pc' = [pc EXCEPT ![p] = "render"]
    /\ UNCHANGED <<config, row, gen, grid, aug_grid, chan, snap, computed>>

UpdateAug(p) ==
    /\ pc[p] = "update"
    /\ row[p] = N
    /\ aug_grid' = [aug_grid EXCEPT ![p] = form_aug_grid(grid[p])]
    /\ pc' = [pc EXCEPT ![p] = "render"]
    /\ UNCHANGED <<config, row, gen, grid, chan, snap, computed>>

\* Lines 60-67: one iteration of the row loop of update_para_1d_dec
ComputeRow(p) ==
    /\ pc[p] = "compute"
    /\ LET g == IF is_mine(p, row[p]) THEN update_row(grid[p], aug_grid[p], row[p]) ELSE grid[p] IN
        /\ grid' = [grid EXCEPT ![p] = g]
        /\ IF row[p] = N - 1
           THEN /\ pc' = [pc EXCEPT ![p] = "exchange"]
                /\ row' = [row EXCEPT ![p] = 0]
                /\ computed' = [computed EXCEPT ![p] = Append(@, g)]
           ELSE /\ row' = [row EXCEPT ![p] = @ + 1]
                /\ UNCHANGED <<pc, computed>>
    /\ UNCHANGED <<config, gen, aug_grid, chan, snap>>

\* Lines 71-73: one iteration of the broadcast loop
ExchangeRow(p) ==
    /\ pc[p] = "exchange"
    /\ bcast_ready(p, bcast_root(row[p]))
    /\ grid' = [grid EXCEPT ![p][row[p]] =
                    bcast_result(p, bcast_root(row[p]), grid[p][row[p]], Head(chan[p]))]
    /\ chan' = bcast_chan(p, bcast_root(row[p]), grid[p][row[p]])
    /\ IF row[p] = N - 1
       THEN /\ pc' = [pc EXCEPT ![p] = "reconcile"]
            /\ row' = [row EXCEPT ![p] = 0]
       ELSE /\ row' = [row EXCEPT ![p] = @ + 1]
            /\ pc' = pc
    /\ UNCHANGED <<config, gen, aug_grid, snap, computed>>

\* Lines 79-81: rank 0 rebuilds the augmented grid and broadcasts it
Reconcile(p) ==
    /\ pc[p] = "reconcile"
    /\ bcast_ready(p, 0)
    /\ LET mine == reconcile_aug(p, grid[p], aug_grid[p]) IN
        /\ aug_grid' = [aug_grid EXCEPT ![p] = bcast_result(p, 0, mine, Head(chan[p]))]
        /\ chan' = bcast_chan(p, 0, mine)
    /\ pc' = [pc EXCEPT ![p] = "render"]
    /\ UNCHANGED <<config, row, gen, grid, snap, computed>>

\* Lines 51-52 and 83-84: plt.cla(), plt.imshow(self.grid); the call returns
Render(p) ==
    /\ pc[p] = "render"
    /\ pc' = [pc EXCEPT ![p] = "idle"]
    /\ gen' = [gen EXCEPT ![p] = @ + 1]
    /\ UNCHANGED <<config, row, grid, aug_grid, chan, snap, computed>>

Next ==
    \E p \in Workers :
        \/ StartupCheck(p)
        \/ Construct(p)
        \/ StartupBcast(p)
        \/ Tick(p)
        \/ UpdateRow(p)
        \/ UpdateAug(p)
        \/ ComputeRow(p)
        \/ ExchangeRow(p)
        \/ Reconcile(p)
        \/ Render(p)

Spec == Init /\ [][Next]_vars

\* The same program on grids of every size 1 .. MaxSizeN
SpecSizes == InitSizes /\ [][Next]_vars

----------------------------------------------------------------------------
\* Canonical patterns on the torus, as sets of live cells around (r, c)

SingleCell(n, r, c) == {<<r, c>>}

Block(n, r, c) ==
    {<<r, c>>, <<r, (c + 1) % n>>, <<(r + 1) % n, c>>, <<(r + 1) % n, (c + 1) % n>>}

BlinkerRow(n, r, c) == {<<r, (c + n - 1) % n>>, <<r, c>>, <<r, (c + 1) % n>>}

BlinkerCol(n, r, c) == {<<(r + n - 1) % n, c>>, <<r, c>>, <<(r + 1) % n, c>>}

Patterns(n) ==
    {GridOf(n, SingleCell(n, x[1], x[2])) : x \in Cells(n)}
        \cup {GridOf(n, Block(n, x[1], x[2])) : x \in Cells(n)}
        \cup {GridOf(n, BlinkerRow(n, x[1], x[2])) : x \in Cells(n)}

InitPatterns ==
    /\ N \in 5 .. MaxPatN
    /\ mpi_size \in 1 .. MaxPatW
    /\ do_movie \in BOOLEAN
    /\ seed \in Patterns(N)
    /\ Start

\* The program started on a canonical pattern
SpecPatterns == InitPatterns /\ [][Next]_vars

----------------------------------------------------------------------------
\* Progress and faults, on the grid of the main specification with few seeds

InitSmall ==
    /\ N = GridN
    /\ mpi_size \in 1 .. MaxW
    /\ do_movie \in BOOLEAN
    /\ seed \in SeedsOf(N, MaxSizeLive)
    /\ Start

\* The steps of process p
Proc(p) ==
    \/ StartupCheck(p)
    \/ Construct(p)
    \/ StartupBcast(p)
    \/ Tick(p)
    \/ UpdateRow(p)
    \/ UpdateAug(p)
    \/ ComputeRow(p)
    \/ ExchangeRow(p)
    \/ Reconcile(p)
    \/ Render(p)

\* Every process is an operating-system process of its own that keeps
\* running: a step of p that stays possible is eventually taken
Fairness == \A p \in 0 .. (MaxW - 1) : WF_vars(p \in Workers /\ Proc(p))

SpecLive == InitSmall /\ [][Next]_vars /\ Fairness

\* A process stops taking part (it hangs or is killed) in a generation
\* before it has issued any of that generation's row broadcasts
Stall(p) ==
    /\ pc[p] = "compute" \/ (pc[p] = "exchange" /\ row[p] = 0)
    /\ pc' = [pc EXCEPT ![p] = "stalled"]
    /\ UNCHANGED <<config, row, gen, grid, aug_grid, chan, snap, computed>>

\* Lines 83-84 inside the loop of lines 177-178: plt.cla() or plt.imshow()
\* raises; nothing catches the exception, it leaves update_para_1d_dec and
\* the headless loop, and the process ends
RenderFail(p) ==
    /\ pc[p] = "render"
    /\ ~do_movie
    /\ pc' = [pc EXCEPT ![p] = "crashed"]
    /\ UNCHANGED <<config, row, gen, grid, aug_grid, chan, snap, computed>>

NextFault ==
    \/ Next
    \/ \E p \in Workers : Stall(p)
    \/ \E p \in Workers : RenderFail(p)

SpecFault == InitSmall /\ [][NextFault]_vars


----------------------------------------------------------------------------
\* Reference definitions the properties are stated with

\* Toroidal wrap-padding by explicit modulo indexing
WrapPad(g) ==
    LET n == size(g) IN
    [i \in 0 .. (n + 1) |-> [j \in 0 .. (n + 1) |-> g[(i - 1) % n][(j - 1) % n]]]

\* Sum of the 8 neighbours by explicit modulo indexing of the unaugmented grid
ModSum(g, r, c) ==
    LET n == size(g)
        u == (r + n - 1) % n
        d == (r + 1) % n
        l == (c + n - 1) % n
        t == (c + 1) % n
    IN  g[u][l] + g[u][c] + g[u][t] + g[r][l] + g[r][t] + g[d][l] + g[d][c] + g[d][t]

\* The standard Game-of-Life rule
LifeNext(cur, n) ==
    IF cur = 1 THEN (IF n = 2 \/ n = 3 THEN 1 ELSE 0) ELSE (IF n = 3 THEN 1 ELSE 0)

\* One simultaneous generation computed from the snapshot g
LifeStep(g) ==
    [r \in DOMAIN g |-> [c \in DOMAIN g[r] |-> LifeNext(g[r][c], ModSum(g, r, c))]]

\* update_para_1d_dec run by a single process (mpi_size = 1): it owns every
\* row, and each broadcast returns its own object
RECURSIVE rows_upto(_, _, _)
rows_upto(g, aug, r) == IF r < 0 THEN g ELSE update_row(rows_upto(g, aug, r - 1), aug, r)

one_worker_generation(g) == rows_upto(g, form_aug_grid(g), N - 1)

RECURSIVE one_worker_run(_, _)
one_worker_run(g, k) == IF k = 0 THEN g ELSE one_worker_generation(one_worker_run(g, k - 1))

RECURSIVE SumTo(_, _)
SumTo(f, k) == IF k < 0 THEN 0 ELSE f[k] + SumTo(f, k - 1)

Live(g) == SumTo([r \in DOMAIN g |-> SumTo(g[r], size(g) - 1)], size(g) - 1)

Divides == N % mpi_size = 0
UsesPara == ~(do_movie /\ mpi_size = 1)
AtRest(p) == pc[p] \in {"idle", "done"}
Exchanged(p) == pc[p] \in {"reconcile", "render"}
Evaluating(p) == (pc[p] = "compute" /\ is_mine(p, row[p])) \/ (pc[p] = "update" /\ row[p] < N)
InGeneration(p) == pc[p] \in {"compute", "exchange", "reconcile", "render", "update"}

----------------------------------------------------------------------------
\* C1: determinism across worker counts.  With mpi_size dividing N, a process
\* that has completed k generations of update_para_1d_dec holds the grid that
\* k generations of a single process give from the same initial grid.
C1_Determinism ==
    (Divides /\ UsesPara) =>
        \A p \in Workers : AtRest(p) => grid[p] = one_worker_run(seed, gen[p])

C1_Witness ==
    /\ Divides /\ mpi_size > 1
    /\ \A p \in Workers : pc[p] = "idle" /\ gen[p] = 2 /\ grid[p] # snap[p]
    /\ snap[0] # seed

\* C2: simultaneous update.  The grid a generation leaves (update or
\* update_para_1d_dec) is the standard Life step of the complete grid the
\* process held when the generation began.
C2_Simultaneous ==
    \A p \in Workers :
        (pc[p] = "render" \/ (AtRest(p) /\ gen[p] > 0)) => grid[p] = LifeStep(snap[p])

C2_Witness ==
    \E p \in Workers : pc[p] = "render" /\ Live(snap[p]) > 0 /\ Live(grid[p]) > Live(snap[p])

\* C3: any two processes that have finished the row broadcasts of the same
\* generation hold the same grid; so when all processes have finished them,
\* all grids agree.
C3_PostExchange ==
    \A p, q \in Workers :
        (Exchanged(p) /\ Exchanged(q) /\ gen[p] = gen[q]) => grid[p] = grid[q]

C3_Witness ==
    /\ mpi_size > 1
    /\ \A p \in Workers : pc[p] = "reconcile" /\ grid[p] # snap[p]

\* C4: when N is not divisible by mpi_size, the startup check stops every
\* process before any generation step: no process ever updates a cell or
\* takes part in a row broadcast.
C4_Rejected ==
    ~Divides => \A p \in Workers : ~InGeneration(p)

\* C5: for N >= 3, neighbor_sum on the augmented grid formed from a grid is the
\* sum of the 8 neighbours by modulo-N indexing of that grid, and lies in 0..8.
\* The grids are those a process holds after Life(N) and between generations.
C5_WrapCorrect ==
    N >= 3 =>
        \A p \in Workers : pc[p] \in {"seed_bcast", "idle"} =>
            LET aug == form_aug_grid(grid[p]) IN
            \A r, c \in Idx :
                /\ neighbor_sum(aug, r, c) = ModSum(grid[p], r, c)
                /\ neighbor_sum(aug, r, c) \in 0 .. 8

C5_Witness ==
    /\ N = 4
    /\ \E p \in Workers :
        /\ pc[p] = "compute"
        /\ grid[p][0][N - 1] = 1
        /\ neighbor_sum(aug_grid[p], N - 1, 0) = 1

\* C6: after construction, after startup and after every completed generation
\* the augmented grid of a process is the wrap-padding of its own grid.
C6_AugConsistent ==
    \A p \in Workers :
        (AtRest(p) \/ pc[p] = "seed_bcast") => aug_grid[p] = WrapPad(grid[p])

C6_Witness ==
    \E p \in Workers : p # 0 /\ pc[p] = "idle" /\ gen[p] = 1 /\ grid[p] # snap[p]

\* C7 as stated: whenever a process evaluates neighbor_sum, its augmented grid
\* is the wrap-padding of its current grid.
C7_NeverStale ==
    \A p \in Workers : Evaluating(p) => aug_grid[p] = WrapPad(grid[p])

\* C7 amended: whenever a process evaluates neighbor_sum, its augmented grid is
\* the wrap-padding of the grid it held when the current generation began.
C7_Snapshot ==
    \A p \in Workers : Evaluating(p) => aug_grid[p] = WrapPad(snap[p])

C7_Witness ==
    \E p \in Workers : Evaluating(p) /\ row[p] > 0 /\ grid[p] # snap[p] /\ gen[p] = 1

\* C8: with mpi_size dividing N, every row has exactly one owner by the
\* ownership test, that owner is the root of the row's broadcast, and every
\* process owns N / mpi_size rows; the assignment depends on nothing that a
\* generation changes.
C8_Partition ==
    Divides =>
        /\ \A r \in Idx :
            /\ bcast_root(r) \in Workers
            /\ \A p \in Workers : is_mine(p, r) <=> p = bcast_root(r)
        /\ \A p \in Workers : Cardinality({r \in Idx : is_mine(p, r)}) = N \div mpi_size
        /\ UNION {{r \in Idx : is_mine(p, r)} : p \in Workers} = Idx

C8_Witness ==
    /\ N = 4 /\ mpi_size = 2
    /\ \E p \in Workers : pc[p] = "exchange" /\ gen[p] = 1 /\ row[p] = 3

\* C9: a process that has left the exchange loop holds, in every row, the row
\* its owner computed in the compute loop of the same generation.
C9_ExchangeComplete ==
    \A p \in Workers : pc[p] = "reconcile" =>
        \A r \in Idx :
            LET q == r % mpi_size IN
            /\ Len(computed[q]) > gen[p]
            /\ grid[p][r] = computed[q][gen[p] + 1][r]

C9_Witness ==
    /\ mpi_size > 1
    /\ pc[0] = "reconcile" /\ gen[0] = 1
    /\ \E r \in Idx : r % mpi_size # 0 /\ grid[0][r] # snap[0][r]

\* C10: after the startup broadcast and before its first generation, a process
\* holds the grid rank 0 drew, and its augmented grid is the wrap-padding of it.
C10_IdenticalStart ==
    \A p \in Workers :
        (pc[p] = "idle" /\ gen[p] = 0) => (grid[p] = seed /\ aug_grid[p] = WrapPad(seed))

C10_Witness ==
    /\ mpi_size > 1
    /\ Live(seed) = 2
    /\ \A p \in Workers : pc[p] = "idle" /\ gen[p] = 0


\* C11: when a process hands its grid to imshow, every row holds the value
\* its owner computed in the same generation (update_para_1d_dec), or the
\* complete single-process generation of the snapshot (update): never rows
\* of two generations.
C11_StableSnapshot ==
    \A p \in Workers : pc[p] = "render" =>
        IF UsesPara
        THEN \A r \in Idx :
                LET q == r % mpi_size IN
                /\ Len(computed[q]) > gen[p]
                /\ grid[p][r] = computed[q][gen[p] + 1][r]
        ELSE grid[p] = one_worker_generation(snap[p])

C11_Witness ==
    /\ mpi_size > 1
    /\ \E p \in Workers :
        /\ p # 0 /\ pc[p] = "render" /\ gen[p] = 1
        /\ \A r \in Idx : grid[p][r] # snap[p][r]

\* C12: in animated mode with one process (Life.update) every completed
\* generation leaves the grid and the augmented grid that the headless step
\* (update_para_1d_dec) of one process leaves; with more processes both modes
\* run update_para_1d_dec.
C12_SamePath ==
    (do_movie /\ Divides) =>
        \A p \in Workers : AtRest(p) =>
            /\ grid[p] = one_worker_run(seed, gen[p])
            /\ aug_grid[p] = form_aug_grid(one_worker_run(seed, gen[p]))

C12_Witness ==
    /\ do_movie /\ mpi_size = 1
    /\ pc[0] = "idle" /\ gen[0] = 2 /\ grid[0] # snap[0] /\ snap[0] # seed


\* C13: on a torus with N >= 5, (1) a single live cell leaves the grid dead
\* after one generation; (2) a 2x2 block is unchanged after every generation;
\* (3) a blinker of 3 cells in a row is the 3-cell column through the same
\* centre after one generation, which differs from the row, and is the row
\* again after two.
C13_Patterns ==
    N >= 5 =>
        \A p \in Workers : AtRest(p) =>
            \A x \in Cells(N) :
                /\ (seed = GridOf(N, SingleCell(N, x[1], x[2])) /\ gen[p] >= 1)
                        => grid[p] = GridOf(N, {})
                /\ seed = GridOf(N, Block(N, x[1], x[2])) => grid[p] = seed
                /\ (seed = GridOf(N, BlinkerRow(N, x[1], x[2])) /\ gen[p] = 1)
                        => (grid[p] = GridOf(N, BlinkerCol(N, x[1], x[2])) /\ grid[p] # seed)
                /\ (seed = GridOf(N, BlinkerRow(N, x[1], x[2])) /\ gen[p] = 2)
                        => grid[p] = seed

C13_Witness ==
    /\ seed = GridOf(N, BlinkerRow(N, 0, 0))
    /\ \E p \in Workers : pc[p] = "idle" /\ gen[p] = 2 /\ snap[p] = GridOf(N, BlinkerCol(N, 0, 0))


\* C14: with at least 2 processes and N divisible by mpi_size, once a process
\* has stopped before issuing its row broadcasts of a generation, no other
\* process ever gets past the exchange loop of that generation: none reaches
\* lines 79-84 of it or a later generation.
C14_Stall ==
    (Divides /\ mpi_size >= 2) =>
        \A q, p \in Workers : (pc[q] = "stalled" /\ p # q) =>
            \/ gen[p] < gen[q]
            \/ gen[p] = gen[q] /\ pc[p] \notin {"reconcile", "render", "crashed", "done"}

C14_Witness ==
    /\ Divides /\ mpi_size = 3
    /\ pc[1] = "stalled" /\ gen[1] = 1
    /\ \A p \in {0, 2} :
        /\ pc[p] = "exchange" /\ gen[p] = 1
        /\ bcast_root(row[p]) = 1 /\ ~bcast_ready(p, 1)


\* C15: a failure of the presentation calls does not block the simulation:
\* in headless mode, as long as no process has been stopped from outside,
\* either every process has completed its generations or every process
\* whose rendering failed can still take a step of the script.
C15_RenderIsolated ==
    (~do_movie /\ \A p \in Workers : pc[p] # "stalled") =>
        \/ \A p \in Workers : pc[p] = "done"
        \/ \A p \in Workers : pc[p] = "crashed" => ENABLED Proc(p)


\* C16: in the compute loop of update_para_1d_dec a process of rank p writes
\* only rows r with r mod mpi_size = p: until its exchange loop begins every
\* other row is as it was when the generation began, every step leaves its
\* augmented grid unchanged, and its own steps leave the grids of the other
\* processes unchanged.
C16_ComputeFrame ==
    /\ [](\A p \in Workers :
            (pc[p] = "compute" \/ (pc[p] = "exchange" /\ row[p] = 0)) =>
                \A r \in Idx : r % mpi_size # p => grid[p][r] = snap[p][r])
    /\ [][\A p \in Workers : pc[p] = "compute" =>
            /\ \A r \in Idx : r % mpi_size # p => grid'[p][r] = grid[p][r]
            /\ aug_grid'[p] = aug_grid[p]
            /\ (row'[p] # row[p] \/ pc'[p] # pc[p]) =>
                    \A q \in Workers \ {p} : grid'[q] = grid[q]]_vars

C16_Witness ==
    /\ mpi_size > 1
    /\ \E p \in Workers :
        /\ pc[p] = "exchange" /\ row[p] = 0 /\ gen[p] = 1
        /\ grid[p][p] # snap[p][p]
        /\ \E q \in Workers : q # p /\ pc[q] = "compute" /\ gen[q] = 1


\* Every process has nothing left to run: the headless loop has ended, or the
\* animation has drawn the last generation the model follows
Quiescent ==
    \A p \in Workers : pc[p] = "done" \/ (do_movie /\ pc[p] = "idle" /\ gen[p] = MaxGen)

\* C17: progress and termination.  With mpi_size dividing N and every process
\* taking its steps, no deadlock is reachable (some process can step until all
\* have finished), every generation that some process starts is eventually
\* completed by all processes, and in headless mode every process completes
\* exactly num_steps generations and then stops.
C17_Progress ==
    /\ [](Divides => (Quiescent \/ ENABLED Next))
    /\ \A k \in 0 .. (MaxGen - 1) :
            (Divides /\ \E p \in Workers : InGeneration(p) /\ gen[p] = k)
                ~> (\A q \in Workers : gen[q] > k)
    /\ [](\A p \in Workers : pc[p] = "done" => gen[p] = num_steps)
    /\ [](\A p \in Workers : gen[p] <= (IF do_movie THEN MaxGen ELSE num_steps))
    /\ (Divides /\ ~do_movie) ~> [](\A p \in Workers : pc[p] = "done" /\ gen[p] = num_steps)

C17_Witness ==
    /\ ~do_movie /\ mpi_size = MaxW /\ Divides
    /\ \A p \in Workers : pc[p] = "done" /\ gen[p] = num_steps
    /\ Live(seed) > 0


\* The row a process has just evaluated in its update loop, if any
JustEvaluated(p) ==
    /\ pc[p] \in {"compute", "update"}
    /\ row[p] > 0
    /\ pc[p] = "compute" => is_mine(p, row[p] - 1)

\* C18: the if/elif rule of the update loops (1 if the neighbour count is 3,
\* else 0 if the count is not 2, else unchanged) gives, for every current
\* state in {0, 1} and every neighbour count in 0 .. 8, the standard
\* Game-of-Life next state; and so does every row a process has evaluated.
C18_RuleIsLife ==
    /\ \A cur \in {0, 1} : \A n \in 0 .. 8 : cell_rule(cur, n) = LifeNext(cur, n)
    /\ \A p \in Workers : JustEvaluated(p) =>
            \A c \in Idx :
                grid[p][row[p] - 1][c] =
                    LifeNext(snap[p][row[p] - 1][c], neighbor_sum(aug_grid[p], row[p] - 1, c))

C18_Witness ==
    \E p \in Workers : \E c \in Idx :
        /\ JustEvaluated(p)
        /\ snap[p][row[p] - 1][c] = 1
        /\ neighbor_sum(aug_grid[p], row[p] - 1, c) = 2
        /\ grid[p][row[p] - 1][c] = 1


\* C19: the parallel step does not depend on divisibility.  For every N and
\* every mpi_size, also when mpi_size does not divide N or exceeds N, a
\* process that has finished the row broadcasts of update_para_1d_dec holds
\* the grid that the update loop of a single process gives from the grid the
\* generation began with, two processes that finished the same generation
\* hold the same grid, and the broadcasts never deadlock: some process can
\* step until all have finished.
C19_AnySize ==
    UsesPara =>
        /\ \A p \in Workers :
                (Exchanged(p) \/ (AtRest(p) /\ gen[p] > 0)) =>
                    grid[p] = one_worker_generation(snap[p])
        /\ \A p, q \in Workers :
                (Exchanged(p) /\ Exchanged(q) /\ gen[p] = gen[q]) =>
                    snap[p] = snap[q] /\ grid[p] = grid[q]
        /\ Quiescent \/ ENABLED Next

C19_Witness ==
    /\ UsesPara /\ ~Divides /\ mpi_size > 1 /\ mpi_size < N
    /\ \A p \in Workers : pc[p] = "render" /\ gen[p] = 0 /\ grid[p] # snap[p]

C19_WitnessIdle ==
    /\ UsesPara /\ mpi_size > N
    /\ \A p \in Workers : pc[p] = "render" /\ gen[p] = 0 /\ grid[p] # snap[p]


\* Process p is between the start of a generation and the rebuild of the
\* augmented grid at its end
BeforeRebuild(p) == pc[p] \in {"compute", "exchange", "reconcile", "update"}

\* C20: from the start of a generation until the rebuild at its end, the
\* augmented grid of a process is a copy that no cell write modifies: it is
\* the wrap-padding of the grid the generation began with, so two processes in
\* the compute loop of the same generation read the same neighbour count for
\* every cell, whatever their grids hold by then.
C20_SeparateCopy ==
    /\ \A p \in Workers : BeforeRebuild(p) => aug_grid[p] = WrapPad(snap[p])
    /\ \A p, q \in Workers :
            (pc[p] = "compute" /\ pc[q] = "compute" /\ gen[p] = gen[q]) =>
                \A r, c \in Idx :
                    neighbor_sum(aug_grid[p], r, c) = neighbor_sum(aug_grid[q], r, c)

C20_Witness ==
    \E p, q \in Workers :
        /\ pc[p] = "compute" /\ pc[q] = "compute"
        /\ gen[p] = 1 /\ gen[q] = 1
        /\ grid[p] # grid[q]
        /\ grid[p] # snap[p] /\ grid[q] # snap[q]
        /\ aug_grid[p] # form_aug_grid(grid[p])

====
